---- MODULE Spec2Model ----
(***************************************************************************)
(* SimpleVector<Type> over ArrayPtr<Type> (src/simple-vector).             *)
(*                                                                         *)
(* Two vector objects, "s" and "t", are operated on through the public     *)
(* interface.  A vector is the record of its three members:                *)
(*   items_    the owned array; its length is the number of slots that     *)
(*             new Type[n]{} really allocated, <<>> is the null pointer    *)
(*   size_, capacity_   the two counters, exactly as the code keeps them   *)
(* Slot i of the C++ array is items_[i+1].                                 *)
(*                                                                         *)
(* An access outside the allocation is undefined behaviour.  Its outcomes  *)
(* are kept nondeterministic: a read yields any value, a write is lost to  *)
(* the vector and may land in a slot of the other vector's array.  The     *)
(* counters are members of the vector object and are not heap slots.       *)
(***************************************************************************)
EXTENDS Integers, Sequences, FiniteSets, TLC

VARIABLES vecs, last, ptrs, heap

vars == <<vecs, last, ptrs, heap>>

\* ---- bounds ----
MaxCap == 3
\* slots the two vectors own together
MaxSlots == MaxCap
\* arrays that new Type[size]{} hands out in one run of the ArrayPtr program
MaxAllocs == 3

\* Type, the element type: a type of two values; Default is Type{}
Default == 0
Values == {0, 1}
VecIds == {"s", "t"}
Other(v) == IF v = "s" THEN "t" ELSE "s"

Max(a, b) == IF a < b THEN b ELSE a

\* ---- the vector object and the result of one call ----
Vec(items, size, cap) == [items_ |-> items, size_ |-> size, capacity_ |-> cap]

\* SimpleVector() noexcept = default
Empty == Vec(<<>>, 0, 0)

\* vec: the object after the call; ret: index the returned iterator refers to;
\* realloc: a new array was allocated and became the owned one;
\* oobr / oobw: the call read / wrote a slot outside the allocation;
\* abort: an assert failed
Out(vec, ret, realloc, oobr, oobw) ==
  [vec |-> vec, ret |-> ret, realloc |-> realloc, oobr |-> oobr, oobw |-> oobw,
   abort |-> FALSE]

Abort(vec) ==
  [vec |-> vec, ret |-> 0, realloc |-> FALSE, oobr |-> FALSE, oobw |-> FALSE,
   abort |-> TRUE]

\* ---- ArrayPtr ----
\* explicit ArrayPtr(size_t size): size value-initialised slots, or nullptr
ArrayPtr(size) == [i \in 1..size |-> Default]

\* reading slots [lo, hi) of an array: every possible sequence of values read
ReadRange(buf, lo, hi) ==
  IF hi <= lo THEN {<<>>}
  ELSE IF hi <= Len(buf) THEN {SubSeq(buf, lo + 1, hi)}
  ELSE {r \in [1..(hi - lo) -> Values] :
          \A k \in 1..(hi - lo) : (lo + k <= Len(buf)) => r[k] = buf[lo + k]}

\* writing the sequence r to slots [lo, lo + Len(r)) of an array
WriteRange(buf, lo, r) ==
  [k \in 1..Len(buf) |-> IF lo < k /\ k <= lo + Len(r) THEN r[k - lo] ELSE buf[k]]

\* did an access to slots [lo, hi) leave the allocation
Outside(buf, lo, hi) == lo < hi /\ hi > Len(buf)

Fill(n, x) == [i \in 1..n |-> x]

\* ---- constructors ----
\* SimpleVector(size_t size, const Type &value)
SizedFill(size, value) == Vec(Fill(size, value), size, size)

\* explicit SimpleVector(size_t size)
Sized(size) == SizedFill(size, Default)

\* SimpleVector(std::initializer_list<Type> init)
InitList(init) == Vec(WriteRange(Sized(Len(init)).items_, 0, init), Len(init), Len(init))

\* SimpleVector(ReserveProxyObj r)
ReserveCtor(capacity_to_reserve) == Vec(ArrayPtr(capacity_to_reserve), 0, capacity_to_reserve)

\* SimpleVector(const SimpleVector &other)
CopyCtor(other) ==
  { Out(Vec(WriteRange(Sized(other.size_).items_, 0, r), other.size_, other.capacity_),
        0, other.size_ > 0, Outside(other.items_, 0, other.size_), FALSE) :
      r \in ReadRange(other.items_, 0, other.size_) }

\* SimpleVector(SimpleVector &&other): the new object
MoveCtor(other) == Vec(other.items_, other.size_, other.capacity_)

\* a move constructor that takes the array and leaves other's counters
MovedFrom_KeepsCounters(other) == Vec(<<>>, other.size_, other.capacity_)

\* SimpleVector(SimpleVector &&other): what is left in other.  ArrayPtr's move
\* assignment nulls other.items_, std::exchange zeroes both counters
MovedFrom(other) == Vec(<<>>, 0, 0)

\* ---- operations on one vector: the set of possible results ----
\* void Resize(size_t new_size)
Resize(vec, new_size) ==
  IF new_size < vec.size_ THEN
    {Out(Vec(vec.items_, new_size, vec.capacity_), 0, FALSE, FALSE, FALSE)}
  ELSE IF new_size < vec.capacity_ THEN
    {Out(Vec(WriteRange(vec.items_, vec.size_, Fill(new_size - vec.size_, Default)),
             new_size, vec.capacity_),
         0, FALSE, FALSE, Outside(vec.items_, vec.size_, new_size))}
  ELSE
    { Out(Vec(WriteRange(ArrayPtr(new_size), 0, r), new_size, new_size),
          0, new_size > 0, Outside(vec.items_, 0, vec.size_), FALSE) :
        r \in ReadRange(vec.items_, 0, vec.size_) }

\* void Clear() noexcept
Clear(vec) == Resize(vec, 0)

\* void PopBack() noexcept
PopBack(vec) == Resize(vec, vec.size_ - 1)

\* void Reserve(size_t new_capacity)
Reserve(vec, new_capacity) ==
  IF vec.capacity_ < new_capacity THEN
    { Out(Vec(WriteRange(Sized(new_capacity).items_, 0, r), vec.size_, new_capacity),
          0, TRUE, Outside(vec.items_, 0, vec.size_), FALSE) :
        r \in ReadRange(vec.items_, 0, vec.size_) }
  ELSE
    {Out(vec, 0, FALSE, FALSE, FALSE)}

\* void PushBack(const Type &item)
PushBackCopy(vec, item) ==
  { Out(Vec(WriteRange(r.vec.items_, r.vec.size_ - 1, <<item>>), r.vec.size_, r.vec.capacity_),
        0, r.realloc, r.oobr,
        r.oobw \/ Outside(r.vec.items_, r.vec.size_ - 1, r.vec.size_)) :
      r \in Resize(vec, vec.size_ + 1) }

\* the capacity both PushBack(Type &&) and Insert grow to
Grown(capacity) == IF capacity = 0 THEN 1 ELSE capacity * 2

\* PushBack(Type &&) whose growing branch forgets capacity_ = new_capacity
PushBackMove_KeepsCapacity(vec, item) ==
  IF vec.size_ # vec.capacity_ THEN
    {Out(Vec(WriteRange(vec.items_, vec.size_, <<item>>), vec.size_ + 1, vec.capacity_),
         0, FALSE, FALSE, Outside(vec.items_, vec.size_, vec.size_ + 1))}
  ELSE
    { Out(Vec(WriteRange(ArrayPtr(Grown(vec.capacity_)), 0, Append(r, item)),
              vec.size_ + 1, vec.capacity_),
          0, TRUE, Outside(vec.items_, 0, vec.size_), FALSE) :
        r \in ReadRange(vec.items_, 0, vec.size_) }

\* void PushBack(Type &&item)
PushBackMove(vec, item) ==
  IF vec.size_ # vec.capacity_ THEN
    {Out(Vec(WriteRange(vec.items_, vec.size_, <<item>>), vec.size_ + 1, vec.capacity_),
         0, FALSE, FALSE, Outside(vec.items_, vec.size_, vec.size_ + 1))}
  ELSE
    { Out(Vec(WriteRange(ArrayPtr(Grown(vec.capacity_)), 0, Append(r, item)),
              vec.size_ + 1, Grown(vec.capacity_)),
          0, TRUE, Outside(vec.items_, 0, vec.size_), FALSE) :
        r \in ReadRange(vec.items_, 0, vec.size_) }

\* Iterator Insert(ConstIterator position, const Type &value)
\* assert(position >= begin() && position < end()): the build with asserts
\* aborts when it fails, the NDEBUG build goes on
InsertCopy(vec, pos, value) ==
  (IF pos < vec.size_ THEN {} ELSE {Abort(vec)}) \cup
  IF vec.size_ # vec.capacity_ THEN
    { Out(Vec(WriteRange(WriteRange(vec.items_, pos + 1, r), pos, <<value>>),
              vec.size_ + 1, vec.capacity_),
          pos, FALSE, Outside(vec.items_, pos, vec.size_),
          Outside(vec.items_, pos, vec.size_ + 1)) :
        r \in ReadRange(vec.items_, pos, vec.size_) }
  ELSE
    { Out(Vec(WriteRange(ArrayPtr(Grown(vec.capacity_)), 0,
                         SubSeq(r, 1, pos) \o <<value>> \o SubSeq(r, pos + 1, vec.size_)),
              vec.size_ + 1, Grown(vec.capacity_)),
          pos, TRUE, Outside(vec.items_, 0, vec.size_), FALSE) :
        r \in ReadRange(vec.items_, 0, vec.size_) }

\* an Insert(Type &&) that grows by one slot when the array is full
InsertMove_GrowsByOne(vec, pos, value) ==
  IF vec.size_ # vec.capacity_ THEN
    { Out(Vec(WriteRange(WriteRange(vec.items_, pos + 1, r), pos, <<value>>),
              vec.size_ + 1, vec.capacity_),
          pos, FALSE, Outside(vec.items_, pos, vec.size_),
          Outside(vec.items_, pos, vec.size_ + 1)) :
        r \in ReadRange(vec.items_, pos, vec.size_) }
  ELSE
    { Out(Vec(WriteRange(ArrayPtr(vec.capacity_ + 1), 0,
                         SubSeq(r, 1, pos) \o <<value>> \o SubSeq(r, pos + 1, vec.size_)),
              vec.size_ + 1, vec.capacity_ + 1),
          pos, TRUE, Outside(vec.items_, 0, vec.size_), FALSE) :
        r \in ReadRange(vec.items_, 0, vec.size_) }

\* Iterator Insert(ConstIterator position, Type &&value)
\* (move_backward / move leave the same values in the live range as the
\* copies above; the slot at position is moved-from and then assigned)
InsertMove(vec, pos, value) ==
  IF vec.size_ # vec.capacity_ THEN
    { Out(Vec(WriteRange(WriteRange(vec.items_, pos + 1, r), pos, <<value>>),
              vec.size_ + 1, vec.capacity_),
          pos, FALSE, Outside(vec.items_, pos, vec.size_),
          Outside(vec.items_, pos, vec.size_ + 1)) :
        r \in ReadRange(vec.items_, pos, vec.size_) }
  ELSE
    { Out(Vec(WriteRange(ArrayPtr(Grown(vec.capacity_)), 0,
                         SubSeq(r, 1, pos) \o <<value>> \o SubSeq(r, pos + 1, vec.size_)),
              vec.size_ + 1, Grown(vec.capacity_)),
          pos, TRUE, Outside(vec.items_, 0, vec.size_), FALSE) :
        r \in ReadRange(vec.items_, 0, vec.size_) }

\* Iterator Erase(ConstIterator position), called with position in [begin, end)
\* std::move leaves the last source slot moved-from: valid, value unspecified
Erase(vec, pos) ==
  { Out(Vec(WriteRange(WriteRange(vec.items_, vec.size_ - 1,
                                  IF pos + 1 < vec.size_ THEN <<m>> ELSE <<>>),
                       pos, r),
            vec.size_ - 1, vec.capacity_),
        pos, FALSE, Outside(vec.items_, pos + 1, vec.size_),
        Outside(vec.items_, pos, vec.size_ - 1)) :
      r \in ReadRange(vec.items_, pos + 1, vec.size_), m \in Values }

\* Type &operator[](size_t index) noexcept, written through: v[index] = value
\* (no check in the code; the caller keeps index < size_)
Assign(vec, index, value) ==
  {Out(Vec(WriteRange(vec.items_, index, <<value>>), vec.size_, vec.capacity_),
       index, FALSE, FALSE, Outside(vec.items_, index, index + 1))}

\* Type &At(size_t index): throw is std::out_of_range, ret the value of the
\* slot the returned reference refers to; the vector is not touched
At(vec, index) ==
  IF ~(index < vec.size_) THEN
    {[vec |-> vec, throw |-> TRUE, ret |-> Default, oobr |-> FALSE]}
  ELSE
    { [vec |-> vec, throw |-> FALSE, ret |-> r[1],
       oobr |-> Outside(vec.items_, index, index + 1)] :
        r \in ReadRange(vec.items_, index, index + 1) }

\* std::lexicographical_compare over two ranges already read
RECURSIVE lexicographical_compare(_, _)
lexicographical_compare(a, b) ==
  IF a = <<>> \/ b = <<>> THEN a = <<>> /\ b # <<>>
  ELSE IF Head(a) < Head(b) THEN TRUE
  ELSE IF Head(b) < Head(a) THEN FALSE
  ELSE lexicographical_compare(Tail(a), Tail(b))

\* operator<(lhs, rhs): the results it can give; the ranges are
\* [cbegin(), cend()), that is slots [0, size_)
OpLess(lhs, rhs) ==
  { lexicographical_compare(a, b) :
      a \in ReadRange(lhs.items_, 0, lhs.size_),
      b \in ReadRange(rhs.items_, 0, rhs.size_) }

\* an operator== that tests one direction only
OpEq_OneSided(lhs, rhs) == {~l : l \in OpLess(lhs, rhs)}

\* operator==(lhs, rhs): !(lhs < rhs) && !(rhs < lhs)
OpEq(lhs, rhs) ==
  UNION { IF ~l THEN {~g : g \in OpLess(rhs, lhs)} ELSE {FALSE} :
            l \in OpLess(lhs, rhs) }

\* operator!=(lhs, rhs): !(lhs == rhs)
OpNe(lhs, rhs) == {~e : e \in OpEq(lhs, rhs)}

\* ---- the program ----
\* Two vector objects.  The calls on one vector are made on "s"; "t" is the
\* other operand of copy, move and swap, and swap lets either object be the
\* one worked on.
\* last: the call just made: op on object v; realloc: it allocated a new
\* array for v; abort: an assert failed in it and the program is over;
\* res: what a call that answers yes or no answered (At: it threw)
Worked == {"s"}

NoCall ==
  [op |-> "init", v |-> "s", realloc |-> FALSE, abort |-> FALSE, res |-> FALSE]

\* ---- ArrayPtr objects on their own ----
\* Two ArrayPtr objects "p" and "q".  ptrs[x] is the object: alive (it has
\* been constructed and not destroyed) and its member raw_ptr_, 0 being
\* nullptr and a in Allocs an array that new Type[size]{} returned.
\* heap[a] is what has happened to array a: "unused" (not yet allocated),
\* "allocated", "deleted" (delete[] once), "deleted twice", or "released"
\* (handed to the caller by Release()).
PtrIds == {"p", "q"}
Allocs == 1..MaxAllocs

NoPtr == [alive |-> FALSE, raw_ptr_ |-> 0]
PtrsInit == [x \in PtrIds |-> NoPtr]
HeapInit == [a \in Allocs |-> "unused"]

ptrvars == <<ptrs, heap>>

Init ==
  /\ vecs = [u \in VecIds |-> Empty]
  /\ last = NoCall
  /\ ptrs = PtrsInit
  /\ heap = HeapInit

\* what a write outside the allocation may leave in the other vector's array
Clobber(buf, oobw) ==
  IF oobw THEN {buf} \cup {[buf EXCEPT ![k] = y] : k \in 1..Len(buf), y \in Values}
  ELSE {buf}

\* the call op on vector v ends with result r
Call(op, v, r) ==
  /\ ~last.abort
  /\ r.vec.capacity_ <= MaxCap
  /\ Len(r.vec.items_) + Len(vecs[Other(v)].items_) <= MaxSlots
  /\ \E b \in Clobber(vecs[Other(v)].items_, r.oobw) :
       vecs' = [vecs EXCEPT ![v] = r.vec, ![Other(v)].items_ = b]
  /\ last' = [NoCall EXCEPT !.op = op, !.v = v, !.realloc = r.realloc, !.abort = r.abort]
  /\ UNCHANGED ptrvars

\* the result of a constructor.  A constructor builds a new object under a
\* name that holds none (Empty stands for "no object" as well as for the
\* default-constructed one: both own nothing)
Construct(vec) == Out(vec, 0, Len(vec.items_) > 0, FALSE, FALSE)

\* the implicit ~SimpleVector(): ~ArrayPtr() deletes the array
CallDestroy ==
  \E v \in VecIds :
    /\ ~last.abort
    /\ vecs' = [vecs EXCEPT ![v] = Empty]
    /\ last' = [NoCall EXCEPT !.op = "Destroy", !.v = v]
    /\ UNCHANGED ptrvars

CallDefault ==
  \E v \in Worked : vecs[v] = Empty /\ Call("Default", v, Construct(Empty))

CallSized ==
  \E v \in Worked :
    \E n \in 0..MaxCap : vecs[v] = Empty /\ Call("Sized", v, Construct(Sized(n)))

CallSizedFill ==
  \E v \in Worked :
    \E n \in 0..MaxCap, x \in Values :
      vecs[v] = Empty /\ Call("SizedFill", v, Construct(SizedFill(n, x)))

CallInitList ==
  \E v \in Worked :
    \E n \in 0..MaxCap : \E init \in [1..n -> Values] :
      vecs[v] = Empty /\ Call("InitList", v, Construct(InitList(init)))

CallReserveCtor ==
  \E v \in Worked :
    \E n \in 0..MaxCap :
      vecs[v] = Empty /\ Call("ReserveCtor", v, Construct(ReserveCtor(n)))

CallCopyCtor ==
  \E v \in VecIds : \E r \in CopyCtor(vecs[Other(v)]) :
    /\ vecs[v] = Empty
    /\ Call("CopyCtor", v, r)

CallMoveCtor ==
  \E v \in VecIds :
    /\ ~last.abort
    /\ vecs[v] = Empty
    /\ vecs' = [vecs EXCEPT ![v] = MoveCtor(vecs[Other(v)]),
                             ![Other(v)] = MovedFrom(vecs[Other(v)])]
    /\ last' = [NoCall EXCEPT !.op = "MoveCtor", !.v = v]
    /\ UNCHANGED ptrvars

\* SimpleVector &operator=(const SimpleVector &rhs) with this != &rhs: the
\* copy constructor, then swap (this == &rhs changes nothing)
CallCopyAssign ==
  \E v \in VecIds : \E r \in CopyCtor(vecs[Other(v)]) :
    Call("CopyAssign", v, r)

\* void swap(SimpleVector &other) noexcept
CallSwap ==
  /\ ~last.abort
  /\ vecs' = [u \in VecIds |-> vecs[Other(u)]]
  /\ last' = [NoCall EXCEPT !.op = "swap"]
  /\ UNCHANGED ptrvars

CallResize ==
  \E v \in Worked :
    \E n \in 0..MaxCap : \E r \in Resize(vecs[v], n) :
      Call("Resize", v, r)

CallClear ==
  \E v \in Worked :
    \E r \in Clear(vecs[v]) : Call("Clear", v, r)

CallPopBack ==
  \E v \in Worked :
    /\ vecs[v].size_ > 0
    /\ \E r \in PopBack(vecs[v]) : Call("PopBack", v, r)

CallReserve ==
  \E v \in Worked :
    \E n \in 0..MaxCap : \E r \in Reserve(vecs[v], n) :
      Call("Reserve", v, r)

CallPushBackCopy ==
  \E v \in Worked :
    \E x \in Values : \E r \in PushBackCopy(vecs[v], x) :
      Call("PushBackCopy", v, r)

CallPushBackMove ==
  \E v \in Worked :
    \E x \in Values : \E r \in PushBackMove(vecs[v], x) :
      Call("PushBackMove", v, r)

CallInsertCopy ==
  \E v \in Worked :
    \E x \in Values : \E p \in 0..vecs[v].size_ :
      \E r \in InsertCopy(vecs[v], p, x) : Call("InsertCopy", v, r)

CallInsertMove ==
  \E v \in Worked :
    \E x \in Values : \E p \in 0..vecs[v].size_ :
      \E r \in InsertMove(vecs[v], p, x) : Call("InsertMove", v, r)

CallErase ==
  \E v \in Worked :
    \E p \in 0..(vecs[v].size_ - 1) :
      \E r \in Erase(vecs[v], p) : Call("Erase", v, r)

CallAssign ==
  \E v \in Worked :
    \E x \in Values : \E i \in 0..(vecs[v].size_ - 1) :
      \E r \in Assign(vecs[v], i, x) : Call("Assign", v, r)

\* the caller catches std::out_of_range and goes on
CallAt ==
  \E v \in Worked :
    \E i \in 0..MaxCap : \E r \in At(vecs[v], i) :
      /\ ~last.abort
      /\ vecs' = vecs
      /\ last' = [NoCall EXCEPT !.op = "At", !.v = v, !.res = r.throw]
      /\ UNCHANGED ptrvars

Next ==
  \/ CallDefault \/ CallSized \/ CallSizedFill \/ CallInitList \/ CallReserveCtor
  \/ CallCopyCtor \/ CallMoveCtor \/ CallCopyAssign \/ CallSwap \/ CallDestroy
  \/ CallResize \/ CallClear \/ CallPopBack \/ CallReserve
  \/ CallPushBackCopy \/ CallPushBackMove
  \/ CallInsertCopy \/ CallInsertMove \/ CallErase
  \/ CallAssign \/ CallAt

Spec == Init /\ [][Next]_vars

\* ---- the ArrayPtr program ----
\* new Type[size]{}: the array handed out next
NewArray == CHOOSE a \in Allocs : heap[a] = "unused" /\ \A b \in 1..(a - 1) : heap[b] # "unused"

\* delete[] raw_ptr (delete[] nullptr does nothing)
Delete(raw_ptr) ==
  IF raw_ptr = 0 THEN heap
  ELSE [heap EXCEPT ![raw_ptr] = IF @ = "allocated" THEN "deleted" ELSE "deleted twice"]

\* ArrayPtr() = default
PtrDefault ==
  \E x \in PtrIds :
    /\ ~ptrs[x].alive
    /\ ptrs' = [ptrs EXCEPT ![x] = [alive |-> TRUE, raw_ptr_ |-> 0]]
    /\ UNCHANGED <<heap, vecs, last>>

\* explicit ArrayPtr(size_t size): size ? new Type[size]{} : nullptr
PtrSized ==
  \E x \in PtrIds : \E size \in 0..MaxCap :
    /\ ~ptrs[x].alive
    /\ IF size = 0
       THEN ptrs' = [ptrs EXCEPT ![x] = [alive |-> TRUE, raw_ptr_ |-> 0]] /\ heap' = heap
       ELSE /\ \E a \in Allocs : heap[a] = "unused"
            /\ ptrs' = [ptrs EXCEPT ![x] = [alive |-> TRUE, raw_ptr_ |-> NewArray]]
            /\ heap' = [heap EXCEPT ![NewArray] = "allocated"]
    /\ UNCHANGED <<vecs, last>>

\* explicit ArrayPtr(Type *raw_ptr), given an array the caller got from Release()
PtrRaw ==
  \E x \in PtrIds : \E raw_ptr \in Allocs :
    /\ ~ptrs[x].alive
    /\ heap[raw_ptr] = "released"
    /\ ptrs' = [ptrs EXCEPT ![x] = [alive |-> TRUE, raw_ptr_ |-> raw_ptr]]
    /\ heap' = [heap EXCEPT ![raw_ptr] = "allocated"]
    /\ UNCHANGED <<vecs, last>>

\* ArrayPtr(ArrayPtr &&other) : raw_ptr_(other.Release())
PtrMoveCtor ==
  \E x \in PtrIds, other \in PtrIds :
    /\ ~ptrs[x].alive
    /\ ptrs[other].alive
    /\ ptrs' = [ptrs EXCEPT ![x] = [alive |-> TRUE, raw_ptr_ |-> ptrs[other].raw_ptr_],
                            ![other].raw_ptr_ = 0]
    /\ UNCHANGED <<heap, vecs, last>>

\* ~ArrayPtr(): delete[] raw_ptr_
PtrDestroy ==
  \E x \in PtrIds :
    /\ ptrs[x].alive
    /\ heap' = Delete(ptrs[x].raw_ptr_)
    /\ ptrs' = [ptrs EXCEPT ![x] = NoPtr]
    /\ UNCHANGED <<vecs, last>>

\* ArrayPtr &operator=(ArrayPtr &&other):
\* raw_ptr_ = std::exchange(other.raw_ptr_, nullptr)
PtrMoveAssign ==
  \E x \in PtrIds, other \in PtrIds :
    /\ ptrs[x].alive
    /\ ptrs[other].alive
    /\ ptrs' = IF x = other THEN ptrs
               ELSE [ptrs EXCEPT ![x].raw_ptr_ = ptrs[other].raw_ptr_,
                                 ![other].raw_ptr_ = 0]
    /\ UNCHANGED <<heap, vecs, last>>

\* Type *Release() noexcept: the array is the caller's from now on
PtrRelease ==
  \E x \in PtrIds :
    /\ ptrs[x].alive
    /\ ptrs' = [ptrs EXCEPT ![x].raw_ptr_ = 0]
    /\ heap' = IF ptrs[x].raw_ptr_ = 0 THEN heap
               ELSE [heap EXCEPT ![ptrs[x].raw_ptr_] = "released"]
    /\ UNCHANGED <<vecs, last>>

\* void swap(ArrayPtr &other) noexcept
PtrSwap ==
  \E x \in PtrIds, other \in PtrIds :
    /\ ptrs[x].alive
    /\ ptrs[other].alive
    /\ ptrs' = [ptrs EXCEPT ![x].raw_ptr_ = ptrs[other].raw_ptr_,
                            ![other].raw_ptr_ = ptrs[x].raw_ptr_]
    /\ UNCHANGED <<heap, vecs, last>>

NextPtr ==
  \/ PtrDefault \/ PtrSized \/ PtrRaw \/ PtrMoveCtor \/ PtrDestroy
  \/ PtrMoveAssign \/ PtrRelease \/ PtrSwap

SpecPtr == Init /\ [][NextPtr]_vars

\* ---- the comparison operators on their own ----
\* The operands are any two vectors whose live range [0, size_) lies in
\* their array: built by a constructor, copied (capacity_ above the slots
\* owned), shrunk (slots beyond size_ keep old values).
CmpInputs ==
  UNION { { Vec(items, size, cap) : items \in [1..n -> Values], size \in 0..n,
                                    cap \in n..MaxCap } : n \in 0..MaxCap }

InitCmp ==
  /\ vecs \in [VecIds -> CmpInputs]
  /\ last = NoCall
  /\ ptrs = PtrsInit
  /\ heap = HeapInit

\* lhs < rhs, lhs == rhs, lhs != rhs with lhs = s, rhs = t
CallLess ==
  \E b \in OpLess(vecs["s"], vecs["t"]) :
    vecs' = vecs /\ last' = [NoCall EXCEPT !.op = "<", !.res = b] /\ UNCHANGED ptrvars

CallEq ==
  \E b \in OpEq(vecs["s"], vecs["t"]) :
    vecs' = vecs /\ last' = [NoCall EXCEPT !.op = "==", !.res = b] /\ UNCHANGED ptrvars

CallNe ==
  \E b \in OpNe(vecs["s"], vecs["t"]) :
    vecs' = vecs /\ last' = [NoCall EXCEPT !.op = "!=", !.res = b] /\ UNCHANGED ptrvars

NextCmp == CallLess \/ CallEq \/ CallNe

SpecCmp == InitCmp /\ [][NextCmp]_vars

\* ---- one program: three PushBack, Insert at begin() + 1, Erase at begin(),
\* At(5), on a default-constructed vector "s" ----
\* The values pushed and inserted are any of TraceValues and each call uses
\* either overload; last.op and the size tell how far the program has got.
TraceValues == {10, 15, 20, 30}

TraceCall(op, r) ==
  /\ ~last.abort
  /\ vecs' = [vecs EXCEPT !["s"] = r.vec]
  /\ last' = [NoCall EXCEPT !.op = op, !.realloc = r.realloc, !.abort = r.abort]
  /\ UNCHANGED ptrvars

TracePushBack ==
  /\ last.op \in {"init", "PushBack"}
  /\ vecs["s"].size_ < 3
  /\ \E x \in TraceValues : \E r \in PushBackCopy(vecs["s"], x) \cup PushBackMove(vecs["s"], x) :
       TraceCall("PushBack", r)

TraceInsert ==
  /\ last.op = "PushBack"
  /\ vecs["s"].size_ = 3
  /\ \E x \in TraceValues :
       \E r \in InsertCopy(vecs["s"], 1, x) \cup InsertMove(vecs["s"], 1, x) :
         TraceCall("Insert", r)

TraceErase ==
  /\ last.op = "Insert"
  /\ \E r \in Erase(vecs["s"], 0) : TraceCall("Erase", r)

TraceAt ==
  /\ last.op = "Erase"
  /\ \E r \in At(vecs["s"], 5) :
       vecs' = vecs /\ last' = [NoCall EXCEPT !.op = "At", !.res = r.throw] /\ UNCHANGED ptrvars

NextTrace == TracePushBack \/ TraceInsert \/ TraceErase \/ TraceAt

SpecTrace == Init /\ [][NextTrace]_vars

\* ---- what the claims speak of ----
\* the call stayed inside the allocation; otherwise the values it read or
\* wrote are not defined
Defined(r) == ~r.abort /\ ~r.oobr /\ ~r.oobw

\* slot i holds x
ElemIs(vec, i, x) == i < Len(vec.items_) /\ vec.items_[i + 1] = x

\* slots [lo, hi) hold in new what they held in old
SameElems(old, new, lo, hi) ==
  \A i \in lo..(hi - 1) :
    (i < Len(old.items_) /\ i < Len(new.items_)) => new.items_[i + 1] = old.items_[i + 1]

\* slots [lo, hi) of old are slots [lo + by, hi + by) of new
Shifted(old, new, lo, hi, by) ==
  \A i \in lo..(hi - 1) :
    (i < Len(old.items_) /\ i + by < Len(new.items_)) =>
      new.items_[i + by + 1] = old.items_[i + 1]

PushBacks(vec, x) == PushBackCopy(vec, x) \cup PushBackMove(vec, x)
Inserts(vec, p, x) == InsertCopy(vec, p, x) \cup InsertMove(vec, p, x)

\* C1: in every reachable state the capacity GetCapacity() reports is the
\* number of slots allocated in the vector's array, for both vectors.
C1_CapacityIsAllocated ==
  \A v \in VecIds : vecs[v].capacity_ = Len(vecs[v].items_)

\* C2: in every reachable state size <= capacity holds for every vector,
\* the source and the destination of copy, move and swap included.
C2_SizeWithinCapacity ==
  \A v \in VecIds : vecs[v].size_ <= vecs[v].capacity_

\* C2 witness: a copy has just been made of a vector with 0 < size < capacity,
\* and both the source and the copy are in that case
C2_Witness ==
  /\ last.op \in {"CopyCtor", "CopyAssign"}
  /\ \A v \in VecIds : 0 < vecs[v].size_ /\ vecs[v].size_ < vecs[v].capacity_

\* C3: for every reachable vector and every value v, after PushBack(v), by
\* either overload, size is oldSize + 1, the element at index oldSize is v
\* and the elements at [0, oldSize) are what they were.
C3_PushBackAppends ==
  \A v \in VecIds, x \in Values : \A r \in PushBacks(vecs[v], x) :
    /\ Defined(r)
    /\ r.vec.size_ = vecs[v].size_ + 1
    /\ ElemIs(r.vec, vecs[v].size_, x)
    /\ SameElems(vecs[v], r.vec, 0, vecs[v].size_)

\* C4: for every reachable vector with size = capacity, PushBack, by either
\* overload, makes the capacity max(1, 2 * oldCapacity) and keeps the old
\* elements in order.
C4_PushBackDoubles ==
  \A v \in VecIds, x \in Values :
    vecs[v].size_ = vecs[v].capacity_ =>
      \A r \in PushBacks(vecs[v], x) :
        /\ r.vec.capacity_ = Max(1, 2 * vecs[v].capacity_)
        /\ Defined(r)
        /\ SameElems(vecs[v], r.vec, 0, vecs[v].size_)

\* C5: whenever size < capacity, PushBack, by either overload, allocates
\* nothing: the array is the same allocation and capacity is unchanged (so,
\* after Clear() on a vector of capacity C, none of the next C PushBack calls
\* reallocates).
C5_PushBackInPlace ==
  \A v \in VecIds, x \in Values :
    vecs[v].size_ < vecs[v].capacity_ =>
      \A r \in PushBacks(vecs[v], x) :
        ~r.realloc /\ r.vec.capacity_ = vecs[v].capacity_

\* C6: for every reachable vector and every n, Reserve(n) never decreases
\* capacity, never changes size nor the value of a live element; with
\* n > capacity the new capacity is n, with n <= capacity nothing changes.
C6_Reserve ==
  \A v \in VecIds, n \in 0..(MaxCap + 1) : \A r \in Reserve(vecs[v], n) :
    /\ r.vec.capacity_ >= vecs[v].capacity_
    /\ r.vec.size_ = vecs[v].size_
    /\ Defined(r)
    /\ SameElems(vecs[v], r.vec, 0, vecs[v].size_)
    /\ (n > vecs[v].capacity_ => r.vec.capacity_ = n)
    /\ (n <= vecs[v].capacity_ => r.vec = vecs[v] /\ ~r.realloc)

\* C7: for every reachable vector and every newSize > capacity,
\* Resize(newSize) leaves capacity >= max(newSize, 2 * oldCapacity), sets
\* size to newSize, keeps the elements at [0, oldSize) and sets those at
\* [oldSize, newSize) to the default value.
C7_ResizeGrows ==
  \A v \in VecIds, n \in 0..(MaxCap + 1) :
    n > vecs[v].capacity_ =>
      \A r \in Resize(vecs[v], n) :
        /\ r.vec.capacity_ >= Max(n, 2 * vecs[v].capacity_)
        /\ r.vec.size_ = n
        /\ Defined(r)
        /\ SameElems(vecs[v], r.vec, 0, vecs[v].size_)
        /\ \A i \in vecs[v].size_..(n - 1) : ElemIs(r.vec, i, Default)

\* C8: for every reachable vector and every newSize with
\* size <= newSize <= capacity (newSize = capacity included), Resize(newSize)
\* sets size to newSize, leaves capacity unchanged, keeps the elements at
\* [0, oldSize) and resets exactly the slots [oldSize, newSize) to the
\* default value.
C8_ResizeWithinCapacity ==
  \A v \in VecIds, n \in 0..MaxCap :
    (vecs[v].size_ <= n /\ n <= vecs[v].capacity_) =>
      \A r \in Resize(vecs[v], n) :
        /\ r.vec.size_ = n
        /\ r.vec.capacity_ = vecs[v].capacity_
        /\ Defined(r)
        /\ SameElems(vecs[v], r.vec, 0, vecs[v].size_)
        /\ \A i \in vecs[v].size_..(n - 1) : ElemIs(r.vec, i, Default)
        /\ SameElems(vecs[v], r.vec, n, vecs[v].capacity_)

\* C9: for every reachable vector of size oldSize and every n < oldSize,
\* Resize(n) allocates nothing and leaves capacity unchanged, and Resize(n)
\* followed by Resize(oldSize) yields size oldSize, the elements at [0, n)
\* as they were and the elements at [n, oldSize) equal to the default value.
C9_ResizeDownUp ==
  \A v \in VecIds, n \in 0..MaxCap :
    n < vecs[v].size_ =>
      \A r1 \in Resize(vecs[v], n) :
        /\ ~r1.realloc /\ r1.vec.capacity_ = vecs[v].capacity_
        /\ \A r2 \in Resize(r1.vec, vecs[v].size_) :
             /\ r2.vec.size_ = vecs[v].size_
             /\ Defined(r2)
             /\ SameElems(vecs[v], r2.vec, 0, n)
             /\ \A i \in n..(vecs[v].size_ - 1) : ElemIs(r2.vec, i, Default)

\* C10: for every reachable vector, every index p with 0 <= p <= size and
\* every value v, Insert of v at p, by either overload, followed by Erase at
\* the position Insert returned yields the size and the elements the vector
\* had before the Insert.
C10_InsertThenErase ==
  \A v \in VecIds, x \in Values : \A p \in 0..vecs[v].size_ :
    \A r1 \in Inserts(vecs[v], p, x) :
      /\ Defined(r1)
      /\ \A r2 \in Erase(r1.vec, r1.ret) :
           /\ Defined(r2)
           /\ r2.vec.size_ = vecs[v].size_
           /\ SameElems(vecs[v], r2.vec, 0, vecs[v].size_)

\* C11: Insert(position, value) is valid for every position in [begin, end],
\* position = end and the empty vector included, by either overload: no
\* assert fails, size is oldSize + 1, value is at index p, the old elements
\* [0, p) stay, the old elements [p, oldSize) are at [p + 1, oldSize + 1) in
\* order, and the iterator returned refers to index p.
C11_InsertAnywhere ==
  \A v \in VecIds, x \in Values : \A p \in 0..vecs[v].size_ :
    \A r \in Inserts(vecs[v], p, x) :
      /\ ~r.abort
      /\ Defined(r)
      /\ r.vec.size_ = vecs[v].size_ + 1
      /\ ElemIs(r.vec, p, x)
      /\ SameElems(vecs[v], r.vec, 0, p)
      /\ Shifted(vecs[v], r.vec, p, vecs[v].size_, 1)
      /\ r.ret = p

\* every result of one mutating call on vec: PushBack, Insert, Erase, Resize,
\* Reserve, Clear, element assignment
Mutations(vec) ==
  UNION ( { PushBacks(vec, x) : x \in Values }
          \cup { Inserts(vec, p, x) : p \in 0..vec.size_, x \in Values }
          \cup { Erase(vec, p) : p \in 0..(vec.size_ - 1) }
          \cup { Resize(vec, n) : n \in 0..(MaxCap + 1) }
          \cup { Reserve(vec, n) : n \in 0..(MaxCap + 1) }
          \cup { Assign(vec, i, x) : i \in 0..(vec.size_ - 1), x \in Values }
          \cup { Clear(vec) } )

\* C12: a vector t copy-constructed or copy-assigned from s compares equal to
\* s (same size, same elements) in its own array, and no mutating call made
\* on t afterwards changes the size, the capacity or an element of s.
C12_CopyIsIndependent ==
  \A v \in VecIds : \A t \in CopyCtor(vecs[v]) :
    /\ Defined(t)
    /\ OpEq(t.vec, vecs[v]) = {TRUE}
    /\ t.vec.size_ = vecs[v].size_
    /\ SameElems(vecs[v], t.vec, 0, vecs[v].size_)
    /\ \A m \in Mutations(t.vec) : Clobber(vecs[v].items_, m.oobw) = {vecs[v].items_}

\* C13: for every reachable vector and every index i, At(i) throws
\* out_of_range exactly when i >= size (indices in [size, capacity) and the
\* empty vector included); the vector is unchanged by a throwing call; when
\* i < size the call returns the live element at index i.
C13_AtChecksSize ==
  \A v \in VecIds : \A i \in 0..(MaxCap + 1) : \A r \in At(vecs[v], i) :
    /\ r.throw <=> (i >= vecs[v].size_)
    /\ r.vec = vecs[v]
    /\ (i < vecs[v].size_) => (~r.oobr /\ ElemIs(vecs[v], i, r.ret))

\* C14: move construction transfers the array: the new vector has the size,
\* the capacity, the elements and the array the source had, the source is
\* left with size 0, capacity 0 and no array (so no array has two owners),
\* and the source is still usable: a PushBack on it succeeds.
C14_MoveTransfers ==
  [][ last'.op = "MoveCtor" =>
        LET src == Other(last'.v) IN
          /\ vecs'[last'.v] = vecs[src]
          /\ vecs'[src].size_ = 0
          /\ vecs'[src].capacity_ = 0
          /\ vecs'[src].items_ = <<>>
          /\ \A x \in Values : \A r \in PushBacks(vecs'[src], x) :
               Defined(r) /\ r.vec.size_ = 1 /\ ElemIs(r.vec, 0, x) ]_vars

\* C14 witness: a move construction has just taken a non-empty array with
\* size < capacity, and the source owns nothing
C14_Witness ==
  /\ last.op = "MoveCtor"
  /\ 0 < vecs[last.v].size_
  /\ vecs[last.v].size_ < vecs[last.v].capacity_
  /\ Len(vecs[last.v].items_) = vecs[last.v].capacity_
  /\ vecs[Other(last.v)] = Empty

\* same size and equal elements at every index below it
SameContents(a, b) ==
  /\ a.size_ = b.size_
  /\ \A i \in 0..(a.size_ - 1) : a.items_[i + 1] = b.items_[i + 1]

\* C15: a == b, computed as !(a < b) && !(b < a), is true exactly when a and
\* b have the same size and equal elements at every index; a != b is the
\* negation; the capacities of a and b do not influence the result.
C15_EqualityIsContents ==
  LET a == vecs["s"]
      b == vecs["t"]
  IN /\ OpEq(a, b) = {SameContents(a, b)}
     /\ OpNe(a, b) = {~SameContents(a, b)}
     /\ \A c \in a.capacity_..MaxCap :
          OpEq([a EXCEPT !.capacity_ = c], b) = OpEq(a, b)
     /\ last.op = "==" => last.res = SameContents(a, b)
     /\ last.op = "!=" => last.res = ~SameContents(a, b)

\* C15 witness: == has just answered true for two non-empty vectors of
\* different capacity whose slots beyond size differ
C15_Witness ==
  /\ last.op = "=="
  /\ last.res
  /\ vecs["s"].size_ > 0
  /\ vecs["s"].capacity_ # vecs["t"].capacity_
  /\ vecs["s"].items_ # vecs["t"].items_

\* the live elements, in order
Live(vec) == SubSeq(vec.items_, 1, vec.size_)

\* C16: from a default-constructed vector and with either overload of
\* PushBack and Insert: PushBack(10) gives size 1, capacity 1; PushBack(20)
\* size 2, capacity 2; PushBack(30) size 3, capacity 4; Insert(begin + 1, 15)
\* gives [10, 15, 20, 30], size 4; Erase(begin) gives [15, 20, 30], size 3;
\* At(5) then throws out_of_range.
C16_Trace ==
  LET s == vecs["s"] IN
    /\ (last.op = "PushBack" /\ Live(s) = <<10>>) => s.capacity_ = 1
    /\ (last.op = "PushBack" /\ Live(s) = <<10, 20>>) => s.capacity_ = 2
    /\ (last.op = "PushBack" /\ Live(s) = <<10, 20, 30>>) =>
         /\ s.capacity_ = 4
         /\ \A r \in Inserts(s, 1, 15) :
              /\ Defined(r)
              /\ Live(r.vec) = <<10, 15, 20, 30>>
              /\ \A e \in Erase(r.vec, 0) :
                   /\ Defined(e)
                   /\ Live(e.vec) = <<15, 20, 30>>
                   /\ \A a \in At(e.vec, 5) : a.throw

\* the Insert that gave r from old, if it returned, grew as PushBack(Type &&)
\* does when old was full and stayed in old's array when it was not
InsertGrew(old, r) ==
  ~r.abort =>
    IF old.size_ = old.capacity_
    THEN /\ r.vec.capacity_ = Max(1, 2 * old.capacity_)
         /\ r.realloc
         /\ Len(r.vec.items_) = r.vec.capacity_
    ELSE /\ r.vec.capacity_ = old.capacity_
         /\ ~r.realloc
         /\ Len(r.vec.items_) = Len(old.items_)

C18_EraseShiftsDown ==
  \A v \in VecIds : \A p \in 0..(vecs[v].size_ - 1) :
    \A r \in Erase(vecs[v], p) :
      /\ Defined(r)
      /\ r.vec.size_ = vecs[v].size_ - 1
      /\ SameElems(vecs[v], r.vec, 0, p)
      /\ \A i \in (p + 1)..(vecs[v].size_ - 1) : ElemIs(r.vec, i - 1, vecs[v].items_[i + 1])
      /\ r.vec.capacity_ = vecs[v].capacity_
      /\ ~r.realloc
      /\ Len(r.vec.items_) = Len(vecs[v].items_)
      /\ r.ret = p

\* the live ArrayPtr objects that hold array a
Owners(a) == {x \in PtrIds : ptrs[x].alive /\ ptrs[x].raw_ptr_ = a}

\* C19: under any sequence of ArrayPtr operations (construction with a
\* count, move construction, move assignment also onto an ArrayPtr that owns
\* an array, swap, Release, destruction) every array has at most one owner
\* at any time, no array is deleted twice, and once every ArrayPtr is
\* destroyed every array not handed out by Release() has been deleted.
C19_ExclusiveOwnership ==
  /\ \A a \in Allocs : Cardinality(Owners(a)) <= 1
  /\ \A a \in Allocs : heap[a] # "deleted twice"
  /\ (\A x \in PtrIds : ~ptrs[x].alive) =>
       \A a \in Allocs : heap[a] \in {"unused", "deleted", "released"}

\* every result of one call on vec made within its precondition: the
\* mutating calls, At, and copying vec
Calls(vec) ==
  Mutations(vec)
  \cup UNION { At(vec, i) : i \in 0..(MaxCap + 1) }
  \cup CopyCtor(vec)

\* C20: in any sequence of SimpleVector operations within their
\* preconditions, also on a vector copied from one with size < capacity,
\* every slot an operation reads or writes has an index below the number of
\* slots allocated: no PushBack, Insert, Resize or Reserve touches a slot
\* outside the allocation.
C20_AccessesInsideAllocation ==
  \A v \in VecIds : \A r \in Calls(vecs[v]) :
    /\ ~r.oobr
    /\ ("oobw" \in DOMAIN r) => ~r.oobw

====
